---- MODULE Spec2Model ----
(***************************************************************************)
(* The SMPP time codec of cpp-smpp (smpp/timeformat): ParseSmppTimestamp,  *)
(* ParseDlrTimestamp and ToSmppTimeString(seconds), with the C library     *)
(* calls they make (strptime, mktime, sprintf) and the system clock.       *)
(*                                                                         *)
(* Target data model: LP64 with libc++ (the format "%02li%02li%02lli" of   *)
(* line 156 matches hours::rep = long, minutes::rep = long, seconds::rep = *)
(* long long): int is 32 bits, long / long long / time_t are 64 bits.      *)
(* TLC integers are 32-bit and TLC reports an overflow as an error, so a   *)
(* C int is a TLC integer; a 64-bit value is a tuple of four 16-bit limbs  *)
(* in two's complement, least significant limb first.                      *)
(***************************************************************************)
EXTENDS Integers, Sequences, FiniteSets, TLC

VARIABLES now, tz, last, prev

vars == <<now, tz, last, prev>>

---------------------------------------------------------------------------
(* 64-bit integers (long, long long, time_t, the reps of std::chrono).     *)

LimbBase == 2^16

LZero == <<0, 0, 0, 0>>

\* A non-negative C int widened to 64 bits.
LOfNat(n) == <<n % LimbBase, n \div LimbBase, 0, 0>>

LNot(x) == [i \in 1..4 |-> (LimbBase - 1) - x[i]]

\* A C int widened to 64 bits (sign extension).
LOfInt(i) == IF i >= 0 THEN LOfNat(i) ELSE LNot(LOfNat(-(i + 1)))

LIsNeg(x) == x[4] >= LimbBase \div 2

LAdd(x, y) ==
  LET s1 == x[1] + y[1]
      s2 == x[2] + y[2] + (s1 \div LimbBase)
      s3 == x[3] + y[3] + (s2 \div LimbBase)
      s4 == x[4] + y[4] + (s3 \div LimbBase)
  IN  <<s1 % LimbBase, s2 % LimbBase, s3 % LimbBase, s4 % LimbBase>>

LNeg(x) == LAdd(LNot(x), LOfNat(1))

LSub(x, y) == LAdd(x, LNeg(y))

\* x * c for a constant 0 <= c < 2^15.
LMulNat(x, c) ==
  LET p1 == x[1] * c
      p2 == x[2] * c + (p1 \div LimbBase)
      p3 == x[3] * c + (p2 \div LimbBase)
      p4 == x[4] * c + (p3 \div LimbBase)
  IN  <<p1 % LimbBase, p2 % LimbBase, p3 % LimbBase, p4 % LimbBase>>

LMul(x, c) == IF c >= 0 THEN LMulNat(x, c) ELSE LNeg(LMulNat(x, -c))

\* Unsigned x / c for a constant 0 < c < 2^15.
LUDiv(x, c) ==
  LET t4 == x[4]
      t3 == (t4 % c) * LimbBase + x[3]
      t2 == (t3 % c) * LimbBase + x[2]
      t1 == (t2 % c) * LimbBase + x[1]
  IN  <<t1 \div c, t2 \div c, t3 \div c, t4 \div c>>

\* C's signed division, truncating toward zero, by a constant 0 < c < 2^15.
LDiv(x, c) == IF LIsNeg(x) THEN LNeg(LUDiv(LNeg(x), c)) ELSE LUDiv(x, c)

\* Conversion of a 64-bit value to int: the low 32 bits, as every compiler of
\* the target does it (implementation-defined before C++20, modular since).
LToInt(x) ==
  IF x[2] >= LimbBase \div 2
    THEN (x[2] - LimbBase) * LimbBase + x[1]
    ELSE x[2] * LimbBase + x[1]

LFitsInt(x) == LOfInt(LToInt(x)) = x

LLess(x, y) ==
  IF LIsNeg(x) # LIsNeg(y) THEN LIsNeg(x)
  ELSE \E i \in 1..4 : /\ x[i] < y[i]
                       /\ \A j \in (i + 1)..4 : x[j] = y[j]

LLeq(x, y) == x = y \/ LLess(x, y)

LAbs(x) == IF LIsNeg(x) THEN LNeg(x) ELSE x

\* int * int computed in int. Signed overflow is undefined; the wrapped product
\* is what the target's builds produce, and I32MulOverflows tells when it happened.
I32Mul(a, c) == LToInt(LMul(LOfInt(a), c))

I32MulOverflows(a, c) == ~LFitsInt(LMul(LOfInt(a), c))

---------------------------------------------------------------------------
(* Strings are sequences of one-character strings.                         *)

DigitChars == <<"0", "1", "2", "3", "4", "5", "6", "7", "8", "9">>

\* The regex class \d.
IsDigit(c) == \E i \in 1..10 : DigitChars[i] = c

DigitVal(c) == (CHOOSE i \in 1..10 : DigitChars[i] = c) - 1

\* std::stoi on a sub-match of digits.
RECURSIVE stoi(_)
stoi(s) ==
  IF s = <<>> THEN 0
  ELSE 10 * stoi(SubSeq(s, 1, Len(s) - 1)) + DigitVal(s[Len(s)])

\* The widths of the eight digit groups of the pattern and its tag class [R+-].
GroupWidths == <<2, 2, 2, 2, 2, 2, 1, 2>>

TagClass == {"R", "+", "-"}

RECURSIVE GroupStart(_)
GroupStart(k) == IF k = 1 THEN 1 ELSE GroupStart(k - 1) + GroupWidths[k - 1]

PatternLen == GroupStart(9)

NoMatch == <<>>

\* A matcher that lacks the end anchor (regex_search on a prefix).
regex_match_unanchored(time) ==
  IF /\ Len(time) >= PatternLen
     /\ \A i \in 1..(PatternLen - 1) : IsDigit(time[i])
     /\ time[PatternLen] \in TagClass
  THEN [k \in 1..9 |->
          IF k = 9 THEN <<time[PatternLen]>>
          ELSE SubSeq(time, GroupStart(k), GroupStart(k) + GroupWidths[k] - 1)]
  ELSE NoMatch

\* regex_match(time.begin(), time.end(), match, pattern): the whole string must
\* match ^(\d{2})(\d{2})(\d{2})(\d{2})(\d{2})(\d{2})(\d{1})(\d{2})([R+-])$.
\* The result holds the sub-matches match[1] .. match[9], or is NoMatch.
regex_match(time) ==
  IF /\ Len(time) = PatternLen
     /\ \A i \in 1..(PatternLen - 1) : IsDigit(time[i])
     /\ time[PatternLen] \in TagClass
  THEN [k \in 1..9 |->
          IF k = 9 THEN <<time[PatternLen]>>
          ELSE SubSeq(time, GroupStart(k), GroupStart(k) + GroupWidths[k] - 1)]
  ELSE NoMatch

---------------------------------------------------------------------------
(* The C library's calendar.                                               *)

\* Days from 1970-01-01 to the proleptic Gregorian date y-m-d (m in 1..12).
DaysFromCivil(y, m, d) ==
  LET yy  == IF m <= 2 THEN y - 1 ELSE y
      era == yy \div 400
      yoe == yy - era * 400
      mp  == IF m > 2 THEN m - 3 ELSE m + 9
      doy == ((153 * mp + 2) \div 5) + d - 1
      doe == yoe * 365 + (yoe \div 4) - (yoe \div 100) + doy
  IN  era * 146097 + doe - 719468

\* The date of a day number: the inverse of DaysFromCivil.
CivilFromDays(z) ==
  LET zz  == z + 719468
      era == zz \div 146097
      doe == zz - era * 146097
      yoe == (doe - (doe \div 1460) + (doe \div 36524) - (doe \div 146096)) \div 365
      doy == doe - (365 * yoe + (yoe \div 4) - (yoe \div 100))
      mp  == (5 * doy + 2) \div 153
      d   == doy - ((153 * mp + 2) \div 5) + 1
      m   == IF mp < 10 THEN mp + 3 ELSE mp - 9
      y   == yoe + era * 400
  IN  [year |-> IF m <= 2 THEN y + 1 ELSE y, mon |-> m, mday |-> d]

\* timegm of a broken-down time whose fields need not be in range: the fields
\* are normalised (month 13 is January of the next year, hour 24 the next day).
TimeGm(tm) ==
  LET y    == tm.tm_year + 1900 + (tm.tm_mon \div 12)
      m    == (tm.tm_mon % 12) + 1
      days == DaysFromCivil(y, m, 1) + tm.tm_mday - 1
      mins == (days * 24 + tm.tm_hour) * 60 + tm.tm_min
  IN  LAdd(LMul(LOfInt(mins), 60), LOfInt(tm.tm_sec))

\* mktime(&tm) in a process whose zone is tz seconds east of UTC without
\* daylight saving. It reads tm_year, tm_mon, tm_mday, tm_hour, tm_min, tm_sec
\* (and tm_isdst); tm_gmtoff is an output field that mktime never reads.
mktime(tm, zone) == LSub(TimeGm(tm), LOfInt(zone))

\* localtime of a time_t in the same zone.
localtime(t, zone) ==
  LET loc   == LAdd(t, LOfInt(zone))
      hq    == LDiv(loc, 3600)
      hours == IF LIsNeg(LSub(loc, LMul(hq, 3600))) THEN LSub(hq, LOfNat(1)) ELSE hq
      sih   == LToInt(LSub(loc, LMul(hours, 3600)))
      dq    == LDiv(hours, 24)
      days  == IF LIsNeg(LSub(hours, LMul(dq, 24))) THEN LSub(dq, LOfNat(1)) ELSE dq
      hod   == LToInt(LSub(hours, LMul(days, 24)))
      date  == CivilFromDays(LToInt(days))
  IN  [year |-> date.year, mon |-> date.mon, mday |-> date.mday,
       hour |-> hod, min |-> sih \div 60, sec |-> sih % 60]

---------------------------------------------------------------------------
(* std::chrono::system_clock.                                              *)

\* Ticks of system_clock::duration in one second (the model's clock resolution).
TicksPerSec == 2

\* Clock ticks the model lets pass.
MaxTicks == 4

\* The zones (seconds east of UTC) the process may run in.
Zones == {0, 3600}

\* system_clock::from_time_t.
from_time_t(t) == LMul(t, TicksPerSec)

\* The k-th call of system_clock::now() within one operation: the clock does
\* not stand still between two reads.
SystemClockNow(k) == LAdd(now, LOfNat(k - 1))

\* duration_cast<seconds> of a system_clock duration: truncation toward zero.
duration_cast_seconds(ticks) == LDiv(ticks, TicksPerSec)

---------------------------------------------------------------------------
(* Results of the operations.                                              *)

None == <<>>

Returned(tag, tp, td, str, reads, at) ==
  [kind |-> "ok", tag |-> tag, tp |-> tp, td |-> td, str |-> str,
   reads |-> reads, at |-> at]

\* throw smpp::SmppException(...), and an abnormal end of the process.
Thrown(what) ==
  [kind |-> what, tag |-> "none", tp |-> None, td |-> None, str |-> None,
   reads |-> 0, at |-> None]

---------------------------------------------------------------------------
(* ParseSmppTimestamp.                                                     *)

\* The seconds computed in 32 bits (long total_seconds on an ILP32 target).
ParseRelativeTimestamp32(match) ==
  LET total_hours == (stoi(match[1]) * 365 * 24) + (stoi(match[2]) * 30 * 24)
                     + (stoi(match[3]) * 24) + stoi(match[4])
      total_minutes == LOfInt((total_hours * 60) + stoi(match[5]))
  IN  LOfInt(LToInt(LAdd(LMul(total_minutes, 60), LOfInt(stoi(match[6])))))

ParseRelativeTimestamp(match) ==
  LET yy  == stoi(match[1])
      mon == stoi(match[2])
      dd  == stoi(match[3])
      hh  == stoi(match[4])
      min == stoi(match[5])
      sec == stoi(match[6])
      total_hours   == (yy * 365 * 24) + (mon * 30 * 24) + (dd * 24) + hh
      total_minutes == LOfInt((total_hours * 60) + min)
      total_seconds == LAdd(LMul(total_minutes, 60), LOfInt(sec))
  IN  total_seconds

\* The struct tm that ParseAbsoluteTimestamp fills in.
AbsoluteTm(match) ==
  LET yy  == stoi(match[1])
      mon == stoi(match[2])
      dd  == stoi(match[3])
      hh  == stoi(match[4])
      min == stoi(match[5])
      sec == stoi(match[6])
      n   == stoi(match[8])
      offset_hours   == n \div 4
      offset_minutes == (n % 4) * 15
      \* match[9].compare("+") is 0, that is false, when the tag is "+"
      offset_sign    == IF match[9] # <<"+">> THEN 1 ELSE -1
  IN  [tm_year |-> 2000 + yy - 1900, tm_mon |-> mon - 1, tm_mday |-> dd,
       tm_hour |-> hh, tm_min |-> min, tm_sec |-> sec, tm_isdst |-> -1,
       tm_gmtoff |-> offset_sign * ((offset_hours * 60 * 60) + (offset_minutes * 60))]

ParseAbsoluteTimestamp(match, zone) == from_time_t(mktime(AbsoluteTm(match), zone))

\* A parser that samples the clock again for the instant of a relative string
\* and for the duration of an absolute one.
ParseSmppTimestampTwoReads(time, zone) ==
  LET match == regex_match(time) IN
  IF match # NoMatch
  THEN IF match[9] = <<"R">>
       THEN LET td  == ParseRelativeTimestamp(match)
                t   == SystemClockNow(1)
            IN  Returned("relative", LAdd(SystemClockNow(2), LMul(td, TicksPerSec)),
                         td, None, 2, t)
       ELSE LET tp  == ParseAbsoluteTimestamp(match, zone)
                t   == SystemClockNow(1)
                td  == duration_cast_seconds(LSub(tp, SystemClockNow(2)))
            IN  Returned("absolute", tp, td, None, 2, t)
  ELSE Thrown("FormatError")

ParseSmppTimestamp(time, zone) ==
  LET match == regex_match(time) IN
  IF match # NoMatch
  THEN IF match[9] = <<"R">>
       THEN LET td  == ParseRelativeTimestamp(match)
                t   == SystemClockNow(1)
            IN  Returned("relative", LAdd(t, LMul(td, TicksPerSec)), td, None, 1, t)
       ELSE LET tp  == ParseAbsoluteTimestamp(match, zone)
                t   == SystemClockNow(1)
                td  == duration_cast_seconds(LSub(tp, t))
            IN  Returned("absolute", tp, td, None, 1, t)
  ELSE Thrown("FormatError")

---------------------------------------------------------------------------
(* ParseDlrTimestamp.                                                      *)

\* The conversions of the format "%y%m%d%H%M": the field each one sets and the
\* range strptime accepts.
Conversions ==
  << [field |-> "tm_year", lo |-> 0, hi |-> 99],
     [field |-> "tm_mon",  lo |-> 1, hi |-> 12],
     [field |-> "tm_mday", lo |-> 1, hi |-> 31],
     [field |-> "tm_hour", lo |-> 0, hi |-> 23],
     [field |-> "tm_min",  lo |-> 0, hi |-> 59] >>

\* The number of digits (at most two) a conversion consumes at position pos.
DigitsAt(s, pos) ==
  IF pos > Len(s) \/ ~IsDigit(s[pos]) THEN 0
  ELSE IF pos + 1 > Len(s) \/ ~IsDigit(s[pos + 1]) THEN 1
  ELSE 2

\* The value a conversion stores: %y maps 69..99 to 1969..1999 and 00..68 to
\* 2000..2068, %m stores the month minus one.
Stored(field, v) ==
  IF field = "tm_year" THEN (IF v < 69 THEN v + 100 ELSE v)
  ELSE IF field = "tm_mon" THEN v - 1
  ELSE v

\* strptime(time.c_str(), "%y%m%d%H%M", &tm) from conversion k at position pos:
\* the fields it has set (a function from their names), whether it succeeded,
\* and the position where it stopped.
RECURSIVE strptime(_, _, _, _)
strptime(s, pos, k, set) ==
  IF k > Len(Conversions) THEN [ok |-> TRUE, set |-> set, rest |-> pos]
  ELSE LET c == Conversions[k]
           n == DigitsAt(s, pos)
           v == stoi(SubSeq(s, pos, pos + n - 1))
       IN  IF n = 0 \/ v < c.lo \/ v > c.hi
           THEN [ok |-> FALSE, set |-> set, rest |-> pos]
           ELSE strptime(s, pos + n, k + 1,
                         [f \in DOMAIN set \cup {c.field} |->
                            IF f = c.field THEN Stored(c.field, v) ELSE set[f]])

\* What an int of the uninitialised struct tm may hold.
Indeterminate == {0, 77}

TmFields == {"tm_year", "tm_mon", "tm_mday", "tm_hour", "tm_min"}

\* The fields of tm that strptime leaves as they were.
UnsetFields(time) == TmFields \ DOMAIN strptime(time, 1, 1, <<>>).set

\* The result of strptime is not looked at: a field it did not set keeps the
\* indeterminate value `garbage` gives it, and mktime reads it all the same.
ParseDlrTimestamp(time, zone, garbage) ==
  LET parsed == strptime(time, 1, 1, <<>>)
      get(f) == IF f \in DOMAIN parsed.set THEN parsed.set[f] ELSE garbage[f]
      tm == [tm_year |-> get("tm_year"), tm_mon |-> get("tm_mon"),
             tm_mday |-> get("tm_mday"), tm_hour |-> get("tm_hour"),
             tm_min |-> get("tm_min"), tm_sec |-> 0, tm_isdst |-> -1]
  IN  Returned("instant", from_time_t(mktime(tm, zone)), None, None, 0, None)

---------------------------------------------------------------------------
(* ToSmppTimeString(const std::chrono::seconds &).                         *)

\* The decimal digits of a non-negative 64-bit value.
RECURSIVE DecDigits(_)
DecDigits(x) ==
  LET q == LUDiv(x, 10)
      r == LToInt(LSub(x, LMulNat(q, 10)))
  IN  IF q = LZero THEN <<DigitChars[r + 1]>>
      ELSE Append(DecDigits(q), DigitChars[r + 1])

RECURSIVE ZeroPad(_, _)
ZeroPad(digits, width) ==
  IF Len(digits) >= width THEN digits ELSE ZeroPad(<<"0">> \o digits, width)

\* printf's %02i, %02li and %02lli: at least two characters, padded with zeros;
\* a minus sign counts as one of them, and a wider number is printed in full.
Fmt02(x) ==
  IF LIsNeg(x) THEN <<"-">> \o ZeroPad(DecDigits(LNeg(x)), 1)
  ELSE ZeroPad(DecDigits(x), 2)

\* sizeof buf.
BufSize == 16

\* The computation of ToSmppTimeString up to its return: the fields, the text
\* sprintf produces, whether the exception is thrown, and whether the behaviour
\* is undefined (an int product overflowed, or sprintf wrote past buf: the text
\* and its terminating NUL need Len(text) + 1 bytes).
SmppTimeFields(d) ==
  LET h0  == LDiv(d, 3600)
      t1  == LSub(d, LMul(h0, 3600))
      m   == LDiv(t1, 60)
      t2  == LSub(t1, LMul(m, 60))
      s   == t2
      yy  == LToInt(LDiv(LDiv(h0, 24), 365))
      h1  == LSub(h0, LOfInt(I32Mul(I32Mul(yy, 24), 365)))
      mon == LToInt(LDiv(LDiv(h1, 24), 30))
      h2  == LSub(h1, LOfInt(I32Mul(I32Mul(mon, 24), 30)))
      dd  == LToInt(LDiv(h2, 24))
      h3  == LSub(h2, LOfInt(I32Mul(dd, 24)))
      text == Fmt02(LOfInt(yy)) \o Fmt02(LOfInt(mon)) \o Fmt02(LOfInt(dd))
              \o Fmt02(h3) \o Fmt02(m) \o Fmt02(s) \o <<"0", "0", "0", "R">>
      int_overflow == \/ I32MulOverflows(yy, 24) \/ I32MulOverflows(I32Mul(yy, 24), 365)
                      \/ I32MulOverflows(mon, 24) \/ I32MulOverflows(I32Mul(mon, 24), 30)
                      \/ I32MulOverflows(dd, 24)
  IN  [yy |-> yy, mon |-> mon, dd |-> dd, h |-> h3, m |-> m, s |-> s,
       text |-> text, throws |-> yy > 99,
       undefined |-> int_overflow \/ (yy <= 99 /\ Len(text) + 1 > BufSize)]

\* ToSmppTimeString(d) when the call runs to its end: the exception, or the
\* text that sprintf produced.
ToSmppTimeString(d) ==
  LET f == SmppTimeFields(d)
  IN  IF f.throws THEN Thrown("OverflowError")
      ELSE Returned("string", None, None, f.text, 0, None)

\* Where the behaviour is undefined the build decides: the call runs to its end
\* (the stray bytes hit nothing that is used again), or the process is stopped
\* (a checked sprintf, a stack protector, a sanitizer).
ToSmppTimeStringUndefined(d) == SmppTimeFields(d).undefined

---------------------------------------------------------------------------
(* Inputs.                                                                 *)

\* A field value 0..99 written as two digits, as a sender writes it.
D2(n) == <<DigitChars[(n \div 10) + 1], DigitChars[(n % 10) + 1]>>

\* The wire string "YYMMDDhhmmsstnnp" of the fields f = <<YY, MM, DD, hh, mm,
\* ss, t, nn, p>>.
Wire(f) ==
  D2(f[1]) \o D2(f[2]) \o D2(f[3]) \o D2(f[4]) \o D2(f[5]) \o D2(f[6])
  \o <<DigitChars[f[7] + 1]>> \o D2(f[8]) \o <<f[9]>>

\* The delivery receipt string "YYMMDDhhmm" of f = <<YY, MM, DD, hh, mm>>.
DlrWire(f) == D2(f[1]) \o D2(f[2]) \o D2(f[3]) \o D2(f[4]) \o D2(f[5])

\* hours(h) + minutes(m) + seconds(s) as a std::chrono::seconds count.
Dur(h, m, s) == LAdd(LAdd(LMul(LOfInt(h), 3600), LOfInt(m * 60)), LOfInt(s))

RelativeFields ==
  {0, 1, 99} \X {0, 12, 99} \X {0, 2, 10, 99} \X {0, 23} \X {0, 34} \X {0, 29, 99}
  \X {0, 5} \X {0} \X {"R"}

AbsoluteFields ==
  {11, 99} \X {0, 2, 10, 13} \X {19, 30, 32} \X {7, 8, 24} \X {0, 30, 60} \X {0, 60}
  \X {0} \X {0, 2, 17, 96} \X {"+", "-"}

\* Characters that are wrong somewhere in a timestamp.
OddChars == {"A", "r", "R", "+", "-", " ", "/", ":"}

Replace(s, i, c) == [s EXCEPT ![i] = c]

Remove(s, i) == SubSeq(s, 1, i - 1) \o SubSeq(s, i + 1, Len(s))

\* A string with one character replaced, removed or added, and its prefixes.
Damaged(s) ==
  {Replace(s, i, c) : i \in 1..Len(s), c \in OddChars}
  \cup {Remove(s, i) : i \in 1..Len(s)}
  \cup {Append(s, c) : c \in OddChars \cup {"0"}}
  \cup {<<c>> \o s : c \in {"0", " "}}
  \cup {SubSeq(s, 1, n) : n \in 0..Len(s)}

WireSamples ==
  {Wire(<<0, 0, 2, 0, 0, 0, 0, 0, "R">>), Wire(<<11, 10, 19, 10, 30, 11, 1, 0, "+">>)}

SmppInputs ==
  {Wire(f) : f \in RelativeFields \cup AbsoluteFields}
  \cup UNION {Damaged(s) : s \in WireSamples}

DlrFields ==
  {0, 9, 14, 68, 69, 99} \X {1, 2, 6, 12} \X {1, 3, 28} \X {0, 13, 23} \X {0, 37, 59}

DlrInputs ==
  {DlrWire(f) : f \in DlrFields}
  \cup Damaged(DlrWire(<<14, 2, 3, 13, 37>>))
  \cup {DlrWire(<<14, 13, 3, 13, 37>>), DlrWire(<<14, 2, 32, 13, 37>>),
        DlrWire(<<14, 2, 3, 24, 37>>), DlrWire(<<14, 2, 3, 13, 60>>)}

\* 2^32 years of 365 days, in seconds.
HugeDuration == LMul(LMul(<<0, 0, 1, 0>>, 8760), 3600)

Durations ==
  {Dur(h, m, s) : h \in {0, 1, 23, 24, 48, 719, 720, 8759, 8760, 875043, 875999,
                         876000, 876143},
                  m \in {0, 34, 59}, s \in {0, 29, 59}}
  \cup {LOfInt(-1), LOfInt(-60), LOfInt(-3600), LOfInt(-36000), LOfInt(-86400)}
  \cup {HugeDuration}

\* The inputs of the runs in which the clock advances between the calls.
FewSmppInputs ==
  {Wire(<<0, 0, 2, 0, 0, 0, 0, 0, "R">>), Wire(<<11, 10, 19, 8, 0, 0, 0, 2, "+">>),
   Wire(<<11, 10, 19, 9, 0, 0, 0, 4, "-">>), Wire(<<0, 0, 2, 0, 0, 0, 0, 0, "r">>)}

FewDlrInputs == {DlrWire(<<14, 2, 3, 13, 37>>), SubSeq(DlrWire(<<14, 2, 3, 13, 37>>), 1, 8)}

FewDurations == {Dur(48, 0, 0), Dur(876143, 34, 29)}

---------------------------------------------------------------------------
(* The process: a clock, a zone, and the last two calls with their results. *)

NoCall == [op |-> "none", text |-> None, dur |-> None, res |-> Thrown("none")]

\* The clock when the process starts: 2011-10-19 07:59:59 UTC.
ClockStart ==
  from_time_t(TimeGm([tm_year |-> 111, tm_mon |-> 9, tm_mday |-> 19,
                      tm_hour |-> 7, tm_min |-> 59, tm_sec |-> 59]))

Elapsed == LToInt(LSub(now, ClockStart))

Init ==
  /\ now = ClockStart
  /\ tz \in Zones
  /\ last = NoCall
  /\ prev = NoCall

\* The clock advances by one tick.
Tick ==
  /\ Elapsed < MaxTicks
  /\ now' = LAdd(now, LOfNat(1))
  /\ UNCHANGED <<tz, last, prev>>

Record(call) ==
  /\ last' = call
  /\ prev' = last
  /\ UNCHANGED <<now, tz>>

CallParseSmppTimestamp(time) ==
  Record([op |-> "ParseSmppTimestamp", text |-> time, dur |-> None,
          res |-> ParseSmppTimestamp(time, tz)])

CallParseDlrTimestamp(time) ==
  \E garbage \in [UnsetFields(time) -> Indeterminate] :
    Record([op |-> "ParseDlrTimestamp", text |-> time, dur |-> None,
            res |-> ParseDlrTimestamp(time, tz, garbage)])

CallToSmppTimeString(d) ==
  Record([op |-> "ToSmppTimeString", text |-> None, dur |-> d,
          res |-> ToSmppTimeString(d)])

\* A call of ToSmppTimeString that its undefined behaviour ends.
AbortToSmppTimeString(d) ==
  /\ ToSmppTimeStringUndefined(d)
  /\ Record([op |-> "ToSmppTimeString", text |-> None, dur |-> d,
             res |-> Thrown("abort")])

\* The strings the last call produced, which a caller may parse again.
Formatted ==
  IF last.op = "ToSmppTimeString" /\ last.res.kind = "ok" THEN {last.res.str} ELSE {}

Next ==
  \/ Tick
  \/ \E time \in FewSmppInputs \cup Formatted : CallParseSmppTimestamp(time)
  \/ \E time \in FewDlrInputs : CallParseDlrTimestamp(time)
  \/ \E d \in FewDurations : CallToSmppTimeString(d)
  \/ \E d \in FewDurations : AbortToSmppTimeString(d)

Spec == Init /\ [][Next]_vars

\* One call on each input of the wide input sets, and the parse of a string
\* that ToSmppTimeString returned.
NextCodec ==
  \/ /\ last = NoCall
     /\ \E time \in SmppInputs : CallParseSmppTimestamp(time)
  \/ /\ last = NoCall
     /\ \E time \in DlrInputs : CallParseDlrTimestamp(time)
  \/ /\ last = NoCall
     /\ \E d \in Durations : CallToSmppTimeString(d)
  \/ /\ prev = NoCall
     /\ \E time \in Formatted : CallParseSmppTimestamp(time)
  \/ /\ last = NoCall
     /\ \E d \in Durations : AbortToSmppTimeString(d)

SpecCodec == Init /\ [][NextCodec]_vars

---------------------------------------------------------------------------
(* What the claims speak about.                                            *)

IsSmppParse == last.op = "ParseSmppTimestamp"

IsDlrParse == last.op = "ParseDlrTimestamp"

IsFormat == last.op = "ToSmppTimeString"

\* The grammar of the wire string as the specification words it: six 2-digit
\* fields, a tenths digit, a 2-digit offset and a tag R, + or -.
Grammar(s) ==
  /\ Len(s) = 16
  /\ \A i \in 1..15 : s[i] \in {"0", "1", "2", "3", "4", "5", "6", "7", "8", "9"}
  /\ s[16] \in {"R", "+", "-"}

AllDigits(s) == \A i \in 1..Len(s) : s[i] \in {"0", "1", "2", "3", "4", "5", "6", "7", "8", "9"}

\* The k-th 2-digit field of a string of digits.
Field(s, k) == 10 * DigitVal(s[2 * k - 1]) + DigitVal(s[2 * k])

\* The offset field nn of a wire string.
OffsetField(s) == 10 * DigitVal(s[14]) + DigitVal(s[15])

DaysInMonth(y, m) ==
  IF m = 2 THEN (IF y % 4 = 0 /\ (y % 100 # 0 \/ y % 400 = 0) THEN 29 ELSE 28)
  ELSE IF m \in {4, 6, 9, 11} THEN 30 ELSE 31

\* The six calendar fields of s, from field k on, name a time that exists.
CalendarInRange(s, k) ==
  /\ Field(s, k + 1) \in 1..12
  /\ Field(s, k + 2) \in 1..DaysInMonth(2000 + Field(s, k), Field(s, k + 1))
  /\ Field(s, k + 3) \in 0..23
  /\ Field(s, k + 4) \in 0..59

\* The ranges of section 4.2: month 1-12, day 1-31, hour 0-23, minute and
\* second 0-59, offset at most 95.
FieldsInRange(s) ==
  /\ Field(s, 2) \in 1..12
  /\ Field(s, 3) \in 1..31
  /\ Field(s, 4) \in 0..23
  /\ Field(s, 5) \in 0..59
  /\ Field(s, 6) \in 0..59
  /\ OffsetField(s) \in 0..95

\* floor(total_hours / 24 / 365) of a duration, in 64 bits.
YearCount(d) == LDiv(LDiv(LDiv(d, 3600), 24), 365)

YearCountFits(d) == LLeq(YearCount(d), LOfNat(99))

\* |x| < bound for a 64-bit x.
Within(x, bound) == LLess(LAbs(x), LOfNat(bound))

---------------------------------------------------------------------------
(* C1: ParseSmppTimestamp throws the format exception, and returns nothing, *)
(* for exactly the strings that do not match the grammar in full: every     *)
(* string of another length, with a non-digit in a digit position or with   *)
(* another last character than R, + or -; a matching string is not rejected. *)
C1_RejectsExactlyNonGrammar ==
  IsSmppParse =>
    /\ (last.res.kind = "FormatError") <=> ~Grammar(last.text)
    /\ Grammar(last.text) => last.res.kind = "ok"
    /\ last.res.kind = "FormatError" => last.res.tp = None /\ last.res.td = None

\* A string that matches but for its lowercase tag was rejected.
C1_Witness ==
  /\ IsSmppParse
  /\ Len(last.text) = 16
  /\ last.text[16] = "r"
  /\ AllDigits(SubSeq(last.text, 1, 15))
  /\ last.res.kind = "FormatError"

(* C2: for a matching string with tag R the duration returned is exactly    *)
(* ((YY*365*24 + MM*30*24 + DD*24 + hh)*60 + mm)*60 + ss seconds, whatever   *)
(* the fields (00..99), without normalisation, range check or overflow.     *)
C2_RelativeDuration ==
  (IsSmppParse /\ Grammar(last.text) /\ last.text[16] = "R") =>
    LET s  == last.text
        H  == Field(s, 1) * 365 * 24 + Field(s, 2) * 30 * 24 + Field(s, 3) * 24 + Field(s, 4)
    IN  /\ last.res.kind = "ok"
        /\ last.res.tag = "relative"
        /\ last.res.td = Dur(H, Field(s, 5), Field(s, 6))
        /\ s = Wire(<<0, 0, 2, 0, 0, 0, 0, 0, "R">>) => last.res.td = Dur(48, 0, 0)
        /\ s = Wire(<<99, 12, 10, 23, 34, 29, 0, 0, "R">>)
             => last.res.td = Dur(876143, 34, 29)

\* "991210233429000R" gave 876143 h 34 min 29 s, more seconds than 32 bits hold.
C2_Witness ==
  /\ IsSmppParse
  /\ last.text = Wire(<<99, 12, 10, 23, 34, 29, 0, 0, "R">>)
  /\ last.res.td = Dur(876143, 34, 29)
  /\ ~LFitsInt(last.res.td)

(* C3: whenever ToSmppTimeString(d) returns, for any d of the input type,   *)
(* the string has exactly 16 characters: yy mon dd hh mm ss as two digits   *)
(* each, then "000R", with ss and mm below 60, hh below 24 and              *)
(* yy*8760 + mon*720 + dd*24 + hh the whole hours of d split from the left.  *)
C3_SixteenCharacters ==
  (IsFormat /\ last.res.kind = "ok") =>
    LET s == last.res.str IN
    /\ Len(s) = 16
    /\ AllDigits(SubSeq(s, 1, 12))
    /\ SubSeq(s, 13, 16) = <<"0", "0", "0", "R">>
    /\ Field(s, 6) < 60 /\ Field(s, 5) < 60 /\ Field(s, 4) < 24
    /\ Field(s, 3) * 24 + Field(s, 4) < 30 * 24
    /\ Field(s, 2) * 30 * 24 + Field(s, 3) * 24 + Field(s, 4) < 365 * 24
    /\ last.dur = Dur(Field(s, 1) * 365 * 24 + Field(s, 2) * 30 * 24
                        + Field(s, 3) * 24 + Field(s, 4), Field(s, 5), Field(s, 6))

(* C4: ToSmppTimeString(d) throws the overflow exception exactly when the   *)
(* year count floor(hours / 24 / 365) of d is above 99, and returns a       *)
(* string without error for every d whose year count is at most 99.         *)
C4_OverflowExactlyAbove99 ==
  IsFormat =>
    /\ (last.res.kind = "OverflowError") <=> ~YearCountFits(last.dur)
    /\ YearCountFits(last.dur) => last.res.kind = "ok"

(* C5: round trip: for any d with year count at most 99, parsing the        *)
(* string that ToSmppTimeString(d) returned succeeds, is tagged relative,    *)
(* and yields the duration d.                                               *)
C5_RoundTrip ==
  (IsSmppParse /\ prev.op = "ToSmppTimeString" /\ prev.res.kind = "ok"
     /\ last.text = prev.res.str /\ YearCountFits(prev.dur)) =>
    /\ last.res.kind = "ok"
    /\ last.res.tag = "relative"
    /\ last.res.td = prev.dur

(* C6: for a matching string with tag + or - the instant returned is the    *)
(* naive calendar time (2000+YY, MM, DD, hh, mm, ss) minus the signed        *)
(* offset, +(nn div 4 hours + (nn mod 4)*15 minutes) for + and the negation  *)
(* for -; stated for the strings whose fields are in range.                  *)
C6_SubtractsOffset ==
  (IsSmppParse /\ Grammar(last.text) /\ last.text[16] \in {"+", "-"}
     /\ FieldsInRange(last.text) /\ CalendarInRange(last.text, 1)) =>
    LET s     == last.text
        nn    == OffsetField(s)
        mag   == (nn \div 4) * 3600 + (nn % 4) * 15 * 60
        off   == IF s[16] = "+" THEN mag ELSE -mag
        naive == TimeGm([tm_year |-> 100 + Field(s, 1), tm_mon |-> Field(s, 2) - 1,
                         tm_mday |-> Field(s, 3), tm_hour |-> Field(s, 4),
                         tm_min |-> Field(s, 5), tm_sec |-> Field(s, 6)])
    IN  /\ last.res.kind = "ok"
        /\ last.res.tp = from_time_t(LSub(naive, LOfInt(off)))

(* C7: for every string of 10 digits YYMMDDhhmm with calendar fields in     *)
(* range, for every YY in 00..99, ParseDlrTimestamp returns the instant      *)
(* that reads, in the process's zone, 2000+YY-MM-DD hh:mm:00.               *)
C7_DlrYear2000 ==
  (IsDlrParse /\ Len(last.text) = 10 /\ AllDigits(last.text)
     /\ CalendarInRange(last.text, 1)) =>
    /\ last.res.kind = "ok"
    /\ localtime(LDiv(last.res.tp, TicksPerSec), tz)
         = [year |-> 2000 + Field(last.text, 1), mon |-> Field(last.text, 2),
            mday |-> Field(last.text, 3), hour |-> Field(last.text, 4),
            min |-> Field(last.text, 5), sec |-> 0]

(* C8: ParseDlrTimestamp throws the format exception, and returns no        *)
(* instant, for every input that is not exactly 10 decimal digits.          *)
C8_DlrRejectsMalformed ==
  (IsDlrParse /\ ~(Len(last.text) = 10 /\ AllDigits(last.text))) =>
    /\ last.res.kind = "FormatError"
    /\ last.res.tp = None

(* C9: ParseSmppTimestamp throws the format exception for every matching    *)
(* string with tag + or - that has a field out of range: month not 1..12,   *)
(* day not 1..31, hour above 23, minute or second above 59, offset above 95. *)
C9_RejectsOutOfRange ==
  (IsSmppParse /\ Grammar(last.text) /\ last.text[16] \in {"+", "-"}
     /\ ~FieldsInRange(last.text)) =>
    /\ last.res.kind = "FormatError"
    /\ last.res.tp = None

---------------------------------------------------------------------------
(* C10 speaks about two calls and the clock between them.                   *)

ParsedOk(c) == c.op = "ParseSmppTimestamp" /\ c.res.kind = "ok"

\* One call: a single clock read `at`, taken while the process ran, and the
\* pair (instant, duration) tied to it: instant = at + duration for a relative
\* string; for an absolute one the duration is (instant - at) cut to whole
\* seconds toward zero.
OneClockRead(c) ==
  /\ c.res.reads = 1
  /\ LLeq(ClockStart, c.res.at) /\ LLeq(c.res.at, now)
  /\ c.res.tag = "relative" =>
       c.res.tp = LAdd(c.res.at, LMul(c.res.td, TicksPerSec))
  /\ c.res.tag = "absolute" =>
       LET rest == LSub(LSub(c.res.tp, c.res.at), LMul(c.res.td, TicksPerSec))
       IN  /\ Within(rest, TicksPerSec)
           /\ rest # LZero => LIsNeg(rest) = LIsNeg(LSub(c.res.tp, c.res.at))

\* Two calls on the same string at the clock values t1 = prev.res.at and
\* t2 = last.res.at: a relative string gives the same duration and instants
\* t2 - t1 apart; an absolute string gives the same instant and durations whose
\* difference is t1 - t2 to within `slack` ticks.
SameStringTwice(slack) ==
  (ParsedOk(prev) /\ ParsedOk(last) /\ prev.text = last.text) =>
    /\ LLeq(prev.res.at, last.res.at)
    /\ prev.res.tag = last.res.tag
    /\ last.res.tag = "relative" =>
         /\ last.res.td = prev.res.td
         /\ LSub(last.res.tp, prev.res.tp) = LSub(last.res.at, prev.res.at)
    /\ last.res.tag = "absolute" =>
         /\ last.res.tp = prev.res.tp
         /\ Within(LSub(LMul(LSub(last.res.td, prev.res.td), TicksPerSec),
                        LSub(prev.res.at, last.res.at)), slack)

(* C10 as claimed: every successful ParseSmppTimestamp reads the clock once *)
(* and returns (instant, duration) with instant - duration = now, to whole   *)
(* seconds for an absolute string; the same relative string parsed at        *)
(* t1 <= t2 gives equal durations and instants t2 - t1 apart, the same       *)
(* absolute string gives equal instants and durations that differ by         *)
(* t1 - t2 (read, as the first sentence is, to whole-second precision:       *)
(* off by less than one second).                                             *)
C10_AsClaimed ==
  /\ ParsedOk(last) => OneClockRead(last)
  /\ SameStringTwice(TicksPerSec)

(* C10 as amended: the same, but the durations of the same absolute string  *)
(* parsed at t1 and t2 differ by t1 - t2 only up to the truncation of each   *)
(* of them to whole seconds: off by less than two seconds.                   *)
C10_ClockReadOnce ==
  /\ ParsedOk(last) => OneClockRead(last)
  /\ SameStringTwice(2 * TicksPerSec)

\* The same absolute string parsed half a second before and half a second
\* after its instant: both durations are 0 although a second passed.
C10_Witness ==
  /\ ParsedOk(prev) /\ ParsedOk(last) /\ prev.text = last.text
  /\ last.res.tag = "absolute"
  /\ LLess(prev.res.at, last.res.tp) /\ LLess(last.res.tp, last.res.at)
  /\ prev.res.td = LZero /\ last.res.td = LZero
  /\ LLess(last.res.at, now)

====
